---------------------------- MODULE Spec2Model ----------------------------
(***************************************************************************)
(* Model of rfid/rfid.py: the RFID relay of the lap counter.               *)
(*                                                                         *)
(*   post()           decode the scanned EPC, drop duplicate reads inside  *)
(*                    DEDUP_THRESHOLD, hand the rest to the link           *)
(*   RelayWebsocket   lazy connect, buffer of pending tags, one write per  *)
(*                    send(), close()                                      *)
(*   __main__         start the reader, create the link, idle, shut down   *)
(*                                                                         *)
(* Time is counted in ticks of 1/TicksPerSecond seconds.  Characters are   *)
(* their codes (chr(n) is n), a Python string is the sequence of its       *)
(* character codes, and an EPC is the sequence of its hexadecimal digits.  *)
(***************************************************************************)
EXTENDS Integers, Sequences, FiniteSets, TLC

\* ------------------------------------------------------------------ bounds
TicksPerSecond == 2
MaxClock == 11
MaxBuf == 3
MaxWrites == 2
MaxSends == 3
NThreads == 2
MaxEpcLen == 4
LastSecond == 12

MaxTicks == MaxClock * TicksPerSecond

\* --------------------------------------------------------------- constants
\* DEDUP_THRESHOLD = 5.0 (seconds), in ticks
DEDUP_THRESHOLD == 5 * TicksPerSecond

\* the delimiter of ','.join
Comma == 44

\* the scanned payloads: repr(epc_obj).strip('\'') of the tags on the track
EPCS == { <<"4", "1">>, <<"4", "2", "4", "3">> }

\* ----------------------------------------------------------------- decoder
HexVal ==
  [c \in {"0","1","2","3","4","5","6","7","8","9",
          "A","B","C","D","E","F","a","b","c","d","e","f"} |->
     CASE c = "0" -> 0  [] c = "1" -> 1  [] c = "2" -> 2  [] c = "3" -> 3
       [] c = "4" -> 4  [] c = "5" -> 5  [] c = "6" -> 6  [] c = "7" -> 7
       [] c = "8" -> 8  [] c = "9" -> 9
       [] c \in {"A", "a"} -> 10 [] c \in {"B", "b"} -> 11
       [] c \in {"C", "c"} -> 12 [] c \in {"D", "d"} -> 13
       [] c \in {"E", "e"} -> 14 [] c \in {"F", "f"} -> 15]

Min(a, b) == IF a <= b THEN a ELSE b

\* hex_numbers = [epc[i:i+2] for i in range(0, len(epc), 2)]
HexNumbers(epc) ==
  [k \in 1..((Len(epc) + 1) \div 2) |->
     SubSeq(epc, 2 * k - 1, Min(2 * k, Len(epc)))]

\* int() ignores white space around the digits
Whitespace == {" "}

RECURSIVE LStrip(_)
LStrip(s) ==
  IF s # <<>> /\ s[1] \in Whitespace THEN LStrip(Tail(s)) ELSE s

RECURSIVE RStrip(_)
RStrip(s) ==
  IF s # <<>> /\ s[Len(s)] \in Whitespace
  THEN RStrip(SubSeq(s, 1, Len(s) - 1)) ELSE s

Strip(s) == RStrip(LStrip(s))

RECURSIVE HexValue(_)
\* the number written by a sequence of hexadecimal digits
HexValue(s) ==
  IF s = <<>> THEN 0
  ELSE 16 * HexValue(SubSeq(s, 1, Len(s) - 1)) + HexVal[s[Len(s)]]

\* int(ch, 16) raises ValueError: nothing but white space, or a character
\* that is no hexadecimal digit
IntRaises(ch) ==
  \/ Strip(ch) = <<>>
  \/ \E i \in 1..Len(Strip(ch)) : Strip(ch)[i] \notin DOMAIN HexVal

\* slip: the two digits of a pair are taken in the wrong order
Int16Swapped(ch) ==
  IF Len(Strip(ch)) = 2
  THEN 16 * HexVal[Strip(ch)[2]] + HexVal[Strip(ch)[1]]
  ELSE HexValue(Strip(ch))

\* int(ch, 16) of a chunk of one or two characters
Int16(ch) == HexValue(Strip(ch))

\* the list comprehension of line 69 raises when one int(ch, 16) does
DecodeRaises(epc) ==
  \E k \in 1..Len(HexNumbers(epc)) : IntRaises(HexNumbers(epc)[k])

\* tag = ''.join(chr(int(ch, 16)) for ch in hex_numbers)
Decode(epc) == [k \in 1..Len(HexNumbers(epc)) |-> Int16(HexNumbers(epc)[k])]

\* the characters the payloads handed to the decoder are made of
Alphabet == {"0", "4", "9", "a", "C", "F", "G", " "}

RECURSIVE SeqsOfLen(_)
SeqsOfLen(n) ==
  IF n = 0 THEN {<<>>}
  ELSE {Append(q, c) : q \in SeqsOfLen(n - 1), c \in Alphabet}

\* every payload of 1 to MaxEpcLen characters
Payloads == UNION {SeqsOfLen(n) : n \in 1..MaxEpcLen}

Tags == { Decode(e) : e \in EPCS }

\* the threads of the event source
Threads == 1..NThreads

IdleThread ==
  [pc |-> "idle", epc |-> <<>>, tag |-> <<>>, now |-> 0, ids |-> <<>>,
   raised |-> FALSE]

\* ------------------------------------------------------------------ filter
\* dedup_cache.get(tag, 0.0)
CacheGet(cache, tag) == IF tag \in DOMAIN cache THEN cache[tag] ELSE 0

\* slip: >= in place of >
ShouldForwardAtThreshold(cache, tag, now) ==
  now - CacheGet(cache, tag) >= DEDUP_THRESHOLD

\* now - dedup_cache.get(tag, 0.0) > DEDUP_THRESHOLD
ShouldForward(cache, tag, now) == now - CacheGet(cache, tag) > DEDUP_THRESHOLD

\* slip: the accepted read is not recorded
CacheNotRecorded(cache, tag, now) == cache

\* dedup_cache[tag] = now
CacheAfterForward(cache, tag, now) ==
  [t \in (DOMAIN cache) \cup {tag} |-> IF t = tag THEN now ELSE cache[t]]

\* slip: a duplicate read restarts the window
CacheResetOnDuplicate(cache, tag, now) ==
  [t \in (DOMAIN cache) \cup {tag} |-> IF t = tag THEN now ELSE cache[t]]

\* the else branch only logs 'duplicate read'
CacheAfterDuplicate(cache, tag, now) == cache

\* -------------------------------------------------------------------- link
RECURSIVE Join(_)
\* ','.join(self.tag_buffer)
Join(buf) ==
  IF buf = <<>> THEN <<>>
  ELSE IF Len(buf) = 1 THEN buf[1]
  ELSE buf[1] \o <<Comma>> \o Join(Tail(buf))

\* slip: the new id replaces the backlog
BufferReplaced(buf, tag) == <<tag>>

\* self.tag_buffer.append(tag)
BufferAfterAppend(buf, tag) == Append(buf, tag)

\* slip: a disconnected link is never reconnected
ConnectNever(g) == FALSE

\* if not self.good:
ConnectNeeded(g) == ~g

\* slip: the write is not inside a try block
ErrorEscapesOnWrite(connectFailed, writeFailed) == writeFailed

\* both create_connection and ws.send are inside try/except Exception, which
\* logs the error: neither failure leaves send()
ErrorEscapes(connectFailed, writeFailed) == FALSE

\* slip: the flag is set before the connection is made
GoodSetBeforeConnect(g, connectOk) == TRUE

\* if not self.good: try: create_connection(...); self.good = True
\*                   except Exception: log
GoodAfterConnect(g, connectOk) == IF ~g THEN connectOk ELSE g

\* slip: only the oldest id is dropped after a write
BufferPartlyDrained(buf, writeOk) == IF writeOk THEN Tail(buf) ELSE buf

\* slip: the buffer is cleared whether or not the write succeeded
BufferAlwaysCleared(buf, writeOk) == <<>>

\* try: self.ws.send(tags); self.tag_buffer = []
\* except Exception: self.good = False
BufferAfterWrite(buf, writeOk) == IF writeOk THEN <<>> ELSE buf

GoodAfterWrite(writeOk) == writeOk

\* slip: the connection made is not kept
HandleNotStored(h, tried, connectOk) == h

\* self.ws = websocket.create_connection(...) replaces the handle when the
\* call succeeds; no statement of the class ever removes it
HandleAfterConnect(h, tried, connectOk) ==
  IF tried /\ connectOk THEN "conn" ELSE h

\* RelayWebsocket.send(tag) on a link with buffer buf, flag g and handle h;
\* connectOk and writeOk are the outcomes of create_connection and ws.send
\* should they be called.
SendOutcome(buf, g, h, tag, connectOk, writeOk) ==
  LET buf1 == BufferAfterAppend(buf, tag)
      tried == ConnectNeeded(g)
      g1 == GoodAfterConnect(g, connectOk)
      h1 == HandleAfterConnect(h, tried, connectOk)
  IN  IF g1
      THEN [tag_buffer |-> BufferAfterWrite(buf1, writeOk),
            good |-> GoodAfterWrite(writeOk),
            self_ws |-> h1,
            connectTried |-> tried, connected |-> tried /\ connectOk,
            writes |-> 1, wrote |-> writeOk, msg |-> Join(buf1),
            num_tags |-> Len(buf1), ids |-> buf1,
            raised |-> ErrorEscapes(tried /\ ~connectOk, ~writeOk)]
      ELSE [tag_buffer |-> buf1,
            good |-> g1,
            self_ws |-> h1,
            connectTried |-> tried, connected |-> FALSE,
            writes |-> 0, wrote |-> FALSE, msg |-> <<>>, num_tags |-> 0,
            ids |-> <<>>,
            raised |-> ErrorEscapes(tried /\ ~connectOk, FALSE)]

\* ------------------------------------------------------------------- state
VARIABLES
  clock,        \* time.time(), in ticks
  dedup_cache,  \* tag -> time of the last forwarded read
  ws,           \* the global ws: "None" or "link"
  tag_buffer,   \* RelayWebsocket.tag_buffer
  good,         \* RelayWebsocket.good
  self_ws,      \* RelayWebsocket.ws: "unset" or "conn"
  reader,       \* the mercury reader: "None", "created", "reading", "stopped"
  pc,           \* the statement the main thread is at
  write_range,  \* ns.write_range given
  todo,         \* tags left to write in batch mode
  signalled,    \* history: sig_handler has run
  exit_code,    \* the exit status, once pc = "done"
  accepts,      \* history: tag -> times of its reads that passed the filter
  handed,       \* history: tags ever appended to the pending buffer
  lastCall,     \* history: what the last handler call did
  appended,     \* history: tag -> times it was appended to the buffer
  sent,         \* history: tag -> times it was in a message written
  th,           \* the threads delivering scan events, statement by statement
  due           \* the tags in the field the reader has yet to report

vars == <<clock, dedup_cache, ws, tag_buffer, good, self_ws, reader, pc,
          write_range, todo, signalled, exit_code, accepts, handed, lastCall,
          appended, sent, th, due>>

linkVars == <<tag_buffer, good, self_ws>>
mainVars == <<reader, pc, write_range, todo, signalled, exit_code>>
wireVars == <<appended, sent>>

\* how often tag occurs in the sequence ids
Count(tag, ids) == Cardinality({i \in 1..Len(ids) : ids[i] = tag})

\* the counters after send(tag) with outcome r
AppendedAfter(tag) == [appended EXCEPT ![tag] = @ + 1]

SentAfter(r) ==
  IF r.wrote THEN [t \in Tags |-> sent[t] + Count(t, r.ids)] ELSE sent

NoCall ==
  [op |-> "none", tag |-> <<>>, passed |-> FALSE, sendCalled |-> FALSE,
   connectTried |-> FALSE, connected |-> FALSE, writes |-> 0,
   wrote |-> FALSE, msg |-> <<>>, num_tags |-> 0, raised |-> FALSE,
   prev |-> "none"]

\* how a call ended, remembered by the next call
Outcome(c) ==
  CASE c.sendCalled /\ c.wrote -> "written"
    [] c.sendCalled /\ c.writes = 1 -> "write_failed"
    [] c.sendCalled -> "connect_failed"
    [] c.op = "post" -> "suppressed"
    [] c.op = "on_close" /\ c.connected -> "remote_closed"
    [] OTHER -> c.op

CallOfSend(op, tag, r) ==
  [op |-> op, tag |-> tag, passed |-> (op = "post"), sendCalled |-> TRUE,
   connectTried |-> r.connectTried, connected |-> r.connected,
   writes |-> r.writes, wrote |-> r.wrote, msg |-> r.msg,
   num_tags |-> r.num_tags, raised |-> r.raised,
   prev |-> Outcome(lastCall)]

\* ------------------------------------------------------------------- clock
Tick(d) ==
  /\ pc # "done"
  /\ clock + d <= MaxTicks
  /\ clock' = clock + d
  /\ UNCHANGED <<dedup_cache, ws, linkVars, mainVars, accepts, handed,
                 lastCall, wireVars, th, due>>

\* -------------------------------------------------- RelayWebsocket methods
Send(tag, connectOk, writeOk) ==
  /\ ws = "link"
  /\ pc # "done"
  /\ Len(tag_buffer) < MaxBuf
  /\ appended[tag] < MaxSends
  /\ LET r == SendOutcome(tag_buffer, good, self_ws, tag, connectOk, writeOk)
     IN  /\ tag_buffer' = r.tag_buffer
         /\ good' = r.good
         /\ self_ws' = r.self_ws
         /\ lastCall' = CallOfSend("send", tag, r)
         /\ sent' = SentAfter(r)
  /\ handed' = handed \cup {tag}
  /\ appended' = AppendedAfter(tag)
  /\ UNCHANGED <<clock, dedup_cache, ws, mainVars, accepts, th, due>>

\* close(): if self.good: self.ws.close(); self.good = False
\* closeOk is the outcome of the connection's close(); when it raises, the
\* exception leaves close() before the flag is reset.
CloseRaises(g, closeOk) == g /\ ~closeOk

GoodAfterClose(g, closeOk) == IF CloseRaises(g, closeOk) THEN g ELSE FALSE

CloseEffect(closeOk) ==
  /\ good' = GoodAfterClose(good, closeOk)
  /\ lastCall' = [NoCall EXCEPT !.op = "close",
                                !.raised = CloseRaises(good, closeOk),
                                !.prev = Outcome(lastCall)]
  /\ UNCHANGED <<tag_buffer, self_ws>>

Close(closeOk) ==
  /\ ws = "link"
  /\ pc # "done"
  /\ CloseEffect(closeOk)
  /\ UNCHANGED <<clock, dedup_cache, ws, mainVars, accepts, handed, wireVars,
                 th, due>>

\* slip: the notification is ignored
GoodKeptOnClose(g) == g

\* on_close(): self.good = False
GoodAfterOnClose(g) == FALSE

\* the connection object made by create_connection calls the handler stored
\* in its on_close attribute (line 39) when the remote side closes
OnClose ==
  /\ ws = "link"
  /\ pc # "done"
  /\ self_ws = "conn"
  /\ good' = GoodAfterOnClose(good)
  /\ lastCall' = [NoCall EXCEPT !.op = "on_close", !.connected = good,
                                !.prev = Outcome(lastCall)]
  /\ UNCHANGED <<clock, dedup_cache, ws, tag_buffer, self_ws, mainVars,
                 accepts, handed, wireVars, th, due>>

\* -------------------------------------------------------------------- post
\* post(epc_obj) as one step; it leaves the reader's field alone
PostCall(epc, connectOk, writeOk) ==
  LET tag == Decode(epc)
      now == clock
  IN
  /\ reader = "reading"
  /\ pc # "done"
  /\ Len(tag_buffer) < MaxBuf
  /\ IF DecodeRaises(epc)
     THEN /\ lastCall' = [NoCall EXCEPT !.op = "post", !.raised = TRUE,
                                        !.prev = Outcome(lastCall)]
          /\ UNCHANGED <<dedup_cache, linkVars, accepts, handed, wireVars>>
     ELSE IF ShouldForward(dedup_cache, tag, now)
     THEN /\ dedup_cache' = CacheAfterForward(dedup_cache, tag, now)
          /\ accepts' = [accepts EXCEPT ![tag] = Append(@, now)]
          /\ IF ws # "None"
             THEN LET r == SendOutcome(tag_buffer, good, self_ws, tag,
                                       connectOk, writeOk)
                  IN  /\ tag_buffer' = r.tag_buffer
                      /\ good' = r.good
                      /\ self_ws' = r.self_ws
                      /\ lastCall' = CallOfSend("post", tag, r)
                      /\ handed' = handed \cup {tag}
                      /\ appended' = AppendedAfter(tag)
                      /\ sent' = SentAfter(r)
             ELSE /\ lastCall' = [NoCall EXCEPT !.op = "post", !.tag = tag,
                                                !.passed = TRUE,
                                                !.prev = Outcome(lastCall)]
                  /\ UNCHANGED <<linkVars, handed, wireVars>>
     ELSE /\ dedup_cache' = CacheAfterDuplicate(dedup_cache, tag, now)
          /\ lastCall' = [NoCall EXCEPT !.op = "post", !.tag = tag,
                                        !.prev = Outcome(lastCall)]
          /\ UNCHANGED <<linkVars, accepts, handed, wireVars>>
  /\ UNCHANGED <<clock, ws, mainVars, th>>

Post(epc, connectOk, writeOk) ==
  /\ PostCall(epc, connectOk, writeOk)
  /\ UNCHANGED due

\* ------------------------------------------- post, statement by statement
\* post() and the send() it calls, run by a thread of the event source one
\* statement at a time; the code takes no lock, so the statements of two
\* threads interleave.
ThreadVars == <<clock, ws, mainVars, lastCall, due>>

\* the event source calls post(epc_obj) on thread t
Deliver(t, epc) ==
  /\ reader = "reading"
  /\ pc # "done"
  /\ th[t].pc = "idle"
  /\ th' = [th EXCEPT ![t] = [IdleThread EXCEPT !.pc = "L67", !.epc = epc]]
  /\ UNCHANGED <<dedup_cache, linkVars, accepts, handed, wireVars, ThreadVars>>

\* lines 67-71: decode the payload, read the clock
DecodeStep(t) ==
  /\ th[t].pc = "L67"
  /\ th' = [th EXCEPT ![t] =
              IF DecodeRaises(th[t].epc)
              THEN [@ EXCEPT !.pc = "idle", !.raised = TRUE]
              ELSE [@ EXCEPT !.pc = "L72", !.tag = Decode(th[t].epc),
                             !.now = clock]]
  /\ UNCHANGED <<dedup_cache, linkVars, accepts, handed, wireVars, ThreadVars>>

\* line 72: if now - dedup_cache.get(tag, 0.0) > DEDUP_THRESHOLD
CheckStep(t) ==
  /\ th[t].pc = "L72"
  /\ th' = [th EXCEPT ![t].pc =
              IF ShouldForward(dedup_cache, th[t].tag, th[t].now)
              THEN "L73" ELSE "idle"]
  /\ UNCHANGED <<dedup_cache, linkVars, accepts, handed, wireVars, ThreadVars>>

\* line 73: dedup_cache[tag] = now; line 74: if ws
RecordStep(t) ==
  /\ th[t].pc = "L73"
  /\ dedup_cache' = CacheAfterForward(dedup_cache, th[t].tag, th[t].now)
  /\ accepts' = [accepts EXCEPT ![th[t].tag] = Append(@, th[t].now)]
  /\ th' = [th EXCEPT ![t].pc = IF ws # "None" THEN "L34" ELSE "idle"]
  /\ UNCHANGED <<linkVars, handed, wireVars, ThreadVars>>

\* line 34: self.tag_buffer.append(tag)
AppendStep(t) ==
  /\ th[t].pc = "L34"
  /\ tag_buffer' = BufferAfterAppend(tag_buffer, th[t].tag)
  /\ handed' = handed \cup {th[t].tag}
  /\ appended' = AppendedAfter(th[t].tag)
  /\ th' = [th EXCEPT ![t].pc = "L35"]
  /\ UNCHANGED <<dedup_cache, good, self_ws, accepts, sent, ThreadVars>>

\* line 35: if not self.good
TestConnectStep(t) ==
  /\ th[t].pc = "L35"
  /\ th' = [th EXCEPT ![t].pc = IF ConnectNeeded(good) THEN "L38" ELSE "L43"]
  /\ UNCHANGED <<dedup_cache, linkVars, accepts, handed, wireVars, ThreadVars>>

\* lines 36-42: create_connection, keep the handle, set the flag; or log
ConnectStep(t, connectOk) ==
  /\ th[t].pc = "L38"
  /\ self_ws' = HandleAfterConnect(self_ws, TRUE, connectOk)
  /\ good' = IF connectOk THEN TRUE ELSE good
  /\ th' = [th EXCEPT ![t].pc = "L43"]
  /\ UNCHANGED <<dedup_cache, tag_buffer, accepts, handed, wireVars,
                 ThreadVars>>

\* line 43: if self.good
TestWriteStep(t) ==
  /\ th[t].pc = "L43"
  /\ th' = [th EXCEPT ![t].pc = IF good THEN "L44" ELSE "idle"]
  /\ UNCHANGED <<dedup_cache, linkVars, accepts, handed, wireVars, ThreadVars>>

\* lines 44-47: tags = ','.join(self.tag_buffer)
JoinStep(t) ==
  /\ th[t].pc = "L44"
  /\ th' = [th EXCEPT ![t].pc = "L49", ![t].ids = tag_buffer]
  /\ UNCHANGED <<dedup_cache, linkVars, accepts, handed, wireVars, ThreadVars>>

\* line 49: self.ws.send(tags)
WriteStep(t, writeOk) ==
  /\ th[t].pc = "L49"
  /\ sent' = IF writeOk
             THEN [g \in Tags |-> sent[g] + Count(g, th[t].ids)] ELSE sent
  /\ th' = [th EXCEPT ![t].pc = IF writeOk THEN "L50" ELSE "L52"]
  /\ UNCHANGED <<dedup_cache, linkVars, accepts, handed, appended, ThreadVars>>

\* line 50: self.tag_buffer = []
ClearStep(t) ==
  /\ th[t].pc = "L50"
  /\ tag_buffer' = <<>>
  /\ th' = [th EXCEPT ![t].pc = "idle"]
  /\ UNCHANGED <<dedup_cache, good, self_ws, accepts, handed, wireVars,
                 ThreadVars>>

\* lines 51-53: except Exception: self.good = False
FailStep(t) ==
  /\ th[t].pc = "L52"
  /\ good' = FALSE
  /\ th' = [th EXCEPT ![t].pc = "idle"]
  /\ UNCHANGED <<dedup_cache, tag_buffer, self_ws, accepts, handed, wireVars,
                 ThreadVars>>

\* -------------------------------------------------- the reader's schedule
\* the reader reports a tag that is in the field, once per second
ScanDue(epc, connectOk, writeOk) ==
  /\ epc \in due
  /\ PostCall(epc, connectOk, writeOk)
  /\ due' = due \ {epc}

\* every tag was reported: a second passes and all of them are due again
SecondPasses ==
  /\ due = {}
  /\ pc # "done"
  /\ clock + TicksPerSecond <= LastSecond * TicksPerSecond
  /\ clock' = clock + TicksPerSecond
  /\ due' = EPCS
  /\ UNCHANGED <<dedup_cache, ws, linkVars, mainVars, accepts, handed,
                 lastCall, wireVars, th>>

\* ---------------------------------------------------------------- __main__
\* the statements of the main thread, from the first try block on; ok is the
\* outcome of the driver call (it raises an Exception when ok is FALSE)
MkReader(ok) ==
  /\ pc = "L98"
  /\ reader' = IF ok THEN "created" ELSE reader
  /\ pc' = IF ok THEN "L99" ELSE "L112"
  /\ UNCHANGED <<clock, dedup_cache, ws, linkVars, write_range, todo,
                 signalled, exit_code, accepts, handed, lastCall>>
  /\ UNCHANGED <<wireVars, th, due>>

SetRegion(ok) ==
  /\ pc = "L99"
  /\ pc' = IF ok THEN "L101" ELSE "L112"
  /\ UNCHANGED <<clock, dedup_cache, ws, linkVars, reader, write_range, todo,
                 signalled, exit_code, accepts, handed, lastCall>>
  /\ UNCHANGED <<wireVars, th, due>>

SetReadPlan(ok) ==
  /\ pc = "L101"
  /\ pc' = IF ~ok THEN "L112"
           ELSE IF ~write_range THEN "L109"
           ELSE IF todo > 0 THEN "L105" ELSE "L115"
  /\ UNCHANGED <<clock, dedup_cache, ws, linkVars, reader, write_range, todo,
                 signalled, exit_code, accepts, handed, lastCall>>
  /\ UNCHANGED <<wireVars, th, due>>

\* one turn of the batch loop: time.sleep(5); reader.write(str(t).zfill(4))
WriteTag(ok) ==
  /\ pc = "L105"
  /\ todo' = IF ok THEN todo - 1 ELSE todo
  /\ pc' = IF ~ok THEN "L112" ELSE IF todo > 1 THEN "L105" ELSE "L115"
  /\ UNCHANGED <<clock, dedup_cache, ws, linkVars, reader, write_range,
                 signalled, exit_code, accepts, handed, lastCall>>
  /\ UNCHANGED <<wireVars, th, due>>

\* reader.start_reading(post, on_time=250, off_time=250)
StartReading(ok) ==
  /\ pc = "L109"
  /\ reader' = IF ok THEN "reading" ELSE reader
  /\ pc' = IF ok THEN "L110" ELSE "L112"
  /\ UNCHANGED <<clock, dedup_cache, ws, linkVars, write_range, todo,
                 signalled, exit_code, accepts, handed, lastCall>>
  /\ UNCHANGED <<wireVars, th, due>>

\* ws = RelayWebsocket(ns.host)
CreateLink ==
  /\ pc = "L110"
  /\ ws' = "link"
  /\ tag_buffer' = <<>>
  /\ good' = FALSE
  /\ self_ws' = "unset"
  /\ pc' = "L115"
  /\ UNCHANGED <<clock, dedup_cache, reader, write_range, todo, signalled,
                 exit_code, accepts, handed, lastCall>>
  /\ UNCHANGED <<wireVars, th, due>>

\* except Exception as e: logging.error(str(e))
LogError ==
  /\ pc = "L112"
  /\ pc' = "L115"
  /\ UNCHANGED <<clock, dedup_cache, ws, linkVars, reader, write_range, todo,
                 signalled, exit_code, accepts, handed, lastCall>>
  /\ UNCHANGED <<wireVars, th, due>>

\* try: if not ns.write_range: while True: time.sleep(60)
EnterWait ==
  /\ pc = "L115"
  /\ pc' = IF ~write_range THEN "L117" ELSE "L120"
  /\ UNCHANGED <<clock, dedup_cache, ws, linkVars, reader, write_range, todo,
                 signalled, exit_code, accepts, handed, lastCall>>
  /\ UNCHANGED <<wireVars, th, due>>

\* finally: if reader: reader.stop_reading()
StopReading ==
  /\ pc = "L120"
  /\ reader' = IF reader # "None" THEN "stopped" ELSE reader
  /\ pc' = "L122"
  /\ UNCHANGED <<clock, dedup_cache, ws, linkVars, write_range, todo,
                 signalled, exit_code, accepts, handed, lastCall>>
  /\ UNCHANGED <<wireVars, th, due>>

\* finally: if ws: ws.close(); then the process ends, with status 0 unless
\* close() raised
CloseLink(closeOk) ==
  /\ pc = "L122"
  /\ IF ws # "None"
     THEN /\ CloseEffect(closeOk)
          /\ exit_code' = IF CloseRaises(good, closeOk) THEN 1 ELSE 0
     ELSE /\ exit_code' = 0
          /\ UNCHANGED <<linkVars, lastCall>>
  /\ pc' = "done"
  /\ UNCHANGED <<clock, dedup_cache, ws, reader, write_range, todo,
                 signalled, accepts, handed>>
  /\ UNCHANGED <<wireVars, th, due>>

\* the statements inside "try: ... finally:" of lines 114-123
InSecondTry == {"L115", "L117"}

\* SIGTERM or SIGINT: sig_handler raises SystemExit(0) in the main thread at
\* the statement it is executing.  SystemExit is not an Exception, so the
\* "except Exception" of line 111 does not catch it; only a statement inside
\* the second try runs the finally block.
Signal ==
  /\ pc # "done"
  /\ signalled' = TRUE
  /\ IF pc \in InSecondTry
     THEN pc' = "L120" /\ UNCHANGED exit_code
     ELSE pc' = "done" /\ exit_code' = 0
  /\ UNCHANGED <<clock, dedup_cache, ws, linkVars, reader, write_range, todo,
                 accepts, handed, lastCall>>
  /\ UNCHANGED <<wireVars, th, due>>

\* ---------------------------------------------------------- specifications
\* the relay running: reader started, link created, main thread idle
InitRelay ==
  /\ clock = 0
  /\ dedup_cache = <<>>
  /\ ws = "link"
  /\ tag_buffer = <<>>
  /\ good = FALSE
  /\ self_ws = "unset"
  /\ reader = "reading"
  /\ pc = "L117"
  /\ write_range = FALSE
  /\ todo = 0
  /\ signalled = FALSE
  /\ exit_code = 0
  /\ accepts = [t \in Tags |-> <<>>]
  /\ handed = {}
  /\ lastCall = NoCall
  /\ appended = [t \in Tags |-> 0]
  /\ sent = [t \in Tags |-> 0]
  /\ th = [t \in Threads |-> IdleThread]
  /\ due = {}

\* the link object under sequential calls of its methods
NextLink ==
  \/ \E tag \in Tags, connectOk \in BOOLEAN, writeOk \in BOOLEAN :
       Send(tag, connectOk, writeOk)
  \/ \E closeOk \in BOOLEAN : Close(closeOk)
  \/ OnClose

SpecLink == InitRelay /\ [][NextLink]_vars

\* scan events processed one at a time while the clock advances
NextFilter ==
  \/ \E d \in 1..TicksPerSecond : Tick(d)
  \/ \E epc \in EPCS, connectOk \in BOOLEAN, writeOk \in BOOLEAN :
       Post(epc, connectOk, writeOk)

SpecFilter == InitRelay /\ [][NextFilter]_vars

\* the whole process, from the first try block of __main__
Init ==
  /\ clock = 0
  /\ dedup_cache = <<>>
  /\ ws = "None"
  /\ tag_buffer = <<>>
  /\ good = FALSE
  /\ self_ws = "unset"
  /\ reader = "None"
  /\ pc = "L98"
  /\ write_range \in BOOLEAN
  /\ todo \in (IF write_range THEN {0, MaxWrites} ELSE {0})
  /\ signalled = FALSE
  /\ exit_code = 0
  /\ accepts = [t \in Tags |-> <<>>]
  /\ handed = {}
  /\ lastCall = NoCall
  /\ appended = [t \in Tags |-> 0]
  /\ sent = [t \in Tags |-> 0]
  /\ th = [t \in Threads |-> IdleThread]
  /\ due = {}

Next ==
  \/ Tick(DEDUP_THRESHOLD + 1)
  \/ \E epc \in EPCS, connectOk \in BOOLEAN, writeOk \in BOOLEAN :
       Post(epc, connectOk, writeOk)
  \/ \E ok \in BOOLEAN : MkReader(ok)
  \/ \E ok \in BOOLEAN : SetRegion(ok)
  \/ \E ok \in BOOLEAN : SetReadPlan(ok)
  \/ \E ok \in BOOLEAN : WriteTag(ok)
  \/ \E ok \in BOOLEAN : StartReading(ok)
  \/ CreateLink
  \/ LogError
  \/ EnterWait
  \/ StopReading
  \/ \E closeOk \in BOOLEAN : CloseLink(closeOk)
  \/ Signal

Spec == Init /\ [][Next]_vars

\* the relay running since more than one window after time 0
InitLate ==
  /\ clock = DEDUP_THRESHOLD + 1
  /\ dedup_cache = <<>>
  /\ ws = "link"
  /\ tag_buffer = <<>>
  /\ good = FALSE
  /\ self_ws = "unset"
  /\ reader = "reading"
  /\ pc = "L117"
  /\ write_range = FALSE
  /\ todo = 0
  /\ signalled = FALSE
  /\ exit_code = 0
  /\ accepts = [t \in Tags |-> <<>>]
  /\ handed = {}
  /\ lastCall = NoCall
  /\ appended = [t \in Tags |-> 0]
  /\ sent = [t \in Tags |-> 0]
  /\ th = [t \in Threads |-> IdleThread]
  /\ due = {}

SpecOutage == InitLate /\ [][NextFilter]_vars

\* the tags in the field are reported once at every whole second from 0 on
InitSeconds ==
  /\ clock = 0
  /\ dedup_cache = <<>>
  /\ ws = "link"
  /\ tag_buffer = <<>>
  /\ good = FALSE
  /\ self_ws = "unset"
  /\ reader = "reading"
  /\ pc = "L117"
  /\ write_range = FALSE
  /\ todo = 0
  /\ signalled = FALSE
  /\ exit_code = 0
  /\ accepts = [t \in Tags |-> <<>>]
  /\ handed = {}
  /\ lastCall = NoCall
  /\ appended = [t \in Tags |-> 0]
  /\ sent = [t \in Tags |-> 0]
  /\ th = [t \in Threads |-> IdleThread]
  /\ due = EPCS

NextSeconds ==
  \/ \E epc \in EPCS, connectOk \in BOOLEAN, writeOk \in BOOLEAN :
       ScanDue(epc, connectOk, writeOk)
  \/ SecondPasses

SpecSeconds == InitSeconds /\ [][NextSeconds]_vars

\* a thread of the event source was handed a payload; it decodes it
InitDecode ==
  /\ clock = DEDUP_THRESHOLD + 1
  /\ dedup_cache = <<>>
  /\ ws = "link"
  /\ tag_buffer = <<>>
  /\ good = FALSE
  /\ self_ws = "unset"
  /\ reader = "reading"
  /\ pc = "L117"
  /\ write_range = FALSE
  /\ todo = 0
  /\ signalled = FALSE
  /\ exit_code = 0
  /\ accepts = [t \in Tags |-> <<>>]
  /\ handed = {}
  /\ lastCall = NoCall
  /\ appended = [t \in Tags |-> 0]
  /\ sent = [t \in Tags |-> 0]
  /\ \E epc \in Payloads :
       th = [t \in Threads |->
               IF t = 1 THEN [IdleThread EXCEPT !.pc = "L67", !.epc = epc]
               ELSE IdleThread]
  /\ due = {}

NextDecode == \E t \in Threads : DecodeStep(t)

SpecDecode == InitDecode /\ [][NextDecode]_vars

\* scan events delivered on several threads at once, inside one window
NextThreads ==
  \/ \E t \in Threads, epc \in EPCS : Deliver(t, epc)
  \/ \E t \in Threads : DecodeStep(t)
  \/ \E t \in Threads : CheckStep(t)
  \/ \E t \in Threads : RecordStep(t)
  \/ \E t \in Threads : AppendStep(t)
  \/ \E t \in Threads : TestConnectStep(t)
  \/ \E t \in Threads, connectOk \in BOOLEAN : ConnectStep(t, connectOk)
  \/ \E t \in Threads : TestWriteStep(t)
  \/ \E t \in Threads : JoinStep(t)
  \/ \E t \in Threads, writeOk \in BOOLEAN : WriteStep(t, writeOk)
  \/ \E t \in Threads : ClearStep(t)
  \/ \E t \in Threads : FailStep(t)
  \/ OnClose

SpecThreads == InitLate /\ [][NextThreads]_vars

\* ------------------------------------------------------------- properties
\* a step that is one call of post(), send() or close() by the event source
HandlerStep == UNCHANGED <<clock, mainVars>>

SendStep == HandlerStep /\ lastCall'.sendCalled

PostStep == HandlerStep /\ lastCall'.op = "post"

\* the time of the last read of tag that passed the filter, 0 if none did
LastAccepted(tag) ==
  IF accepts[tag] = <<>> THEN 0 ELSE accepts[tag][Len(accepts[tag])]

RECURSIVE Offset(_, _)
\* where the i-th id starts in a message made of ids and single delimiters
Offset(ids, i) ==
  IF i = 1 THEN 0 ELSE Offset(ids, i - 1) + Len(ids[i - 1]) + 1

\* msg is the ids in order, one delimiter between neighbours, nothing else
IsCommaJoined(msg, ids) ==
  /\ ids # <<>>
  /\ Len(msg) = Offset(ids, Len(ids)) + Len(ids[Len(ids)])
  /\ \A i \in 1..Len(ids) :
       /\ SubSeq(msg, Offset(ids, i) + 1, Offset(ids, i) + Len(ids[i])) = ids[i]
       /\ i < Len(ids) => msg[Offset(ids, i) + Len(ids[i]) + 1] = Comma

\* C1: with non-decreasing timestamps, any two reads of one tag that both
\* passed the filter are more than DEDUP_THRESHOLD apart: no tag is forwarded
\* twice inside one window.
C1_ForwardsMoreThanThresholdApart ==
  \A tag \in Tags : \A i, j \in 1..Len(accepts[tag]) :
    i < j => accepts[tag][j] - accepts[tag][i] > DEDUP_THRESHOLD

C1_Witness ==
  \E tag \in Tags :
    /\ Len(accepts[tag]) >= 2
    /\ lastCall.op = "post" /\ lastCall.tag = tag /\ lastCall.passed

\* C2: a send() makes at most one write attempt; a successful write carries
\* exactly the pending ids, comma-joined in arrival order, and empties the
\* buffer; otherwise every pending id stays, in order.
C2_SendDrainsAllOrNothing ==
  [][SendStep =>
       LET pending == Append(tag_buffer, lastCall'.tag)
       IN  /\ lastCall'.writes <= 1
           /\ lastCall'.wrote =>
                /\ lastCall'.writes = 1
                /\ IsCommaJoined(lastCall'.msg, pending)
                /\ tag_buffer' = <<>>
           /\ ~lastCall'.wrote => tag_buffer' = pending]_vars

C2_Witness ==
  /\ lastCall.sendCalled /\ lastCall.wrote
  /\ lastCall.num_tags = MaxBuf
  /\ tag_buffer = <<>>

\* C3: send(id) while DISCONNECTED with a failing connect attempts no write,
\* stays DISCONNECTED and appends id to the buffer; a send(id2) that then
\* connects and writes sends the backlog followed by id2 as one message and
\* empties the buffer.
C3_FailedConnectKeepsBacklog ==
  [][SendStep /\ ~good =>
       LET pending == Append(tag_buffer, lastCall'.tag)
       IN  /\ lastCall'.connectTried
           /\ ~lastCall'.connected =>
                /\ lastCall'.writes = 0
                /\ ~good'
                /\ tag_buffer' = pending
           /\ lastCall'.connected /\ lastCall'.wrote =>
                /\ lastCall'.writes = 1
                /\ lastCall'.num_tags = Len(tag_buffer) + 1
                /\ IsCommaJoined(lastCall'.msg, pending)
                /\ good'
                /\ tag_buffer' = <<>>]_vars

C3_Witness ==
  /\ lastCall.sendCalled /\ lastCall.prev = "connect_failed"
  /\ lastCall.connected /\ lastCall.wrote
  /\ lastCall.num_tags >= 2
  /\ tag_buffer = <<>> /\ good

\* C4: send(id) while CONNECTED with a failing write makes the link
\* DISCONNECTED and keeps every id of the attempted message, id included, in
\* order; the next send(id2) that connects and writes sends that backlog
\* followed by id2 in one message.
C4_FailedWriteKeepsBacklog ==
  [][SendStep =>
       LET pending == Append(tag_buffer, lastCall'.tag)
       IN  /\ good /\ ~lastCall'.wrote =>
                /\ ~lastCall'.connectTried
                /\ lastCall'.writes = 1
                /\ ~good'
                /\ tag_buffer' = pending
           /\ Outcome(lastCall) = "write_failed"
                /\ lastCall'.connected /\ lastCall'.wrote =>
                /\ Len(tag_buffer) = lastCall.num_tags
                /\ tag_buffer[Len(tag_buffer)] = lastCall.tag
                /\ lastCall'.num_tags = lastCall.num_tags + 1
                /\ IsCommaJoined(lastCall'.msg, pending)]_vars

C4_Witness ==
  /\ lastCall.sendCalled /\ lastCall.prev = "write_failed"
  /\ lastCall.connected /\ lastCall.wrote
  /\ lastCall.num_tags >= 2
  /\ tag_buffer = <<>>

\* C5: close() never raises and leaves the link DISCONNECTED, whatever the
\* state it is called in and whether or not the connection's close fails.
C5_CloseNeverRaises ==
  lastCall.op = "close" => ~lastCall.raised /\ ~good

\* C6: the first observation of an id forwards, for every timestamp.
C6_FirstReadForwards ==
  [][PostStep /\ lastCall'.tag \notin DOMAIN dedup_cache =>
       lastCall'.passed]_vars

\* C7: an event is forwarded if and only if it arrives more than
\* DEDUP_THRESHOLD after the last accepted read of its id (0 if there is
\* none); exactly DEDUP_THRESHOLD after it, the event is suppressed.
C7_ForwardIffOutsideWindow ==
  [][PostStep =>
       /\ lastCall'.passed <=>
            clock - LastAccepted(lastCall'.tag) > DEDUP_THRESHOLD
       /\ lastCall'.sendCalled <=> lastCall'.passed]_vars

C7_Witness ==
  /\ lastCall.op = "post" /\ ~lastCall.passed
  /\ accepts[lastCall.tag] # <<>>
  /\ clock - LastAccepted(lastCall.tag) = DEDUP_THRESHOLD

\* C8: a suppressed event changes neither the dedup cache nor the link; the
\* entry of an id changes only when an event of that id is forwarded, so the
\* cache always holds the time of the last accepted read.
C8_SuppressedLeavesNoTrace ==
  [][/\ PostStep /\ ~lastCall'.passed =>
          UNCHANGED <<dedup_cache, tag_buffer, good, self_ws, handed>>
     /\ dedup_cache' # dedup_cache =>
          /\ PostStep /\ lastCall'.passed
          /\ DOMAIN dedup_cache' = DOMAIN dedup_cache \cup {lastCall'.tag}
          /\ dedup_cache'[lastCall'.tag] = clock
          /\ \A t \in DOMAIN dedup_cache :
               t # lastCall'.tag => dedup_cache'[t] = dedup_cache[t]
     /\ \A t \in DOMAIN dedup_cache : dedup_cache[t] = LastAccepted(t)]_vars

\* accepted at 6 s, a duplicate one tick before 11 s is suppressed
C8_Witness ==
  /\ lastCall.op = "post" /\ ~lastCall.passed
  /\ lastCall.tag \in DOMAIN dedup_cache
  /\ dedup_cache[lastCall.tag] = 6 * TicksPerSecond
  /\ clock = 11 * TicksPerSecond - 1

\* C9: every event recorded in the dedup cache has had its id appended to
\* the pending buffer of the link.
C9_AcceptedIsHandedToLink ==
  \A tag \in DOMAIN dedup_cache : tag \in handed

\* C10: after a termination signal the process exits with code 0, the event
\* source stopped and the link DISCONNECTED.
C10_SignalShutsDown ==
  pc = "done" /\ signalled =>
    /\ exit_code = 0
    /\ reader # "reading"
    /\ ws = "link" => ~good

\* C11: whatever the outcome of the connect and of the write attempt, send()
\* and the post() that called it return normally; a failed attempt shows only
\* as the link DISCONNECTED with every pending id, the new one included, kept.
C11_NoLinkErrorEscapes ==
  [][SendStep =>
       /\ ~lastCall'.raised
       /\ lastCall'.wrote => good'
       /\ ~lastCall'.wrote =>
            /\ ~good'
            /\ tag_buffer' = Append(tag_buffer, lastCall'.tag)]_vars

\* a post() whose write failed, right after one whose connect failed
C11_Witness ==
  /\ lastCall.op = "post" /\ lastCall.sendCalled
  /\ lastCall.prev = "connect_failed"
  /\ lastCall.writes = 1 /\ ~lastCall.wrote
  /\ ~lastCall.raised /\ ~good
  /\ Len(tag_buffer) >= 2

\* C12: a tag reported at every whole second from 0 to 12 is forwarded
\* exactly three times, at 0 s, 6 s and 12 s.
C12_ThreeForwardsInTwelveSeconds ==
  \A epc \in EPCS :
    clock = 12 * TicksPerSecond /\ epc \notin due =>
      accepts[Decode(epc)] =
        <<0, 6 * TicksPerSecond, 12 * TicksPerSecond>>

\* a string of hexadecimal digits, two for every character
IsEvenHex(epc) ==
  /\ epc # <<>>
  /\ Len(epc) % 2 = 0
  /\ \A i \in 1..Len(epc) : epc[i] \in DOMAIN HexVal

UpperDigit ==
  <<"0", "1", "2", "3", "4", "5", "6", "7",
    "8", "9", "A", "B", "C", "D", "E", "F">>

Upper(c) ==
  CASE c = "a" -> "A" [] c = "b" -> "B" [] c = "c" -> "C"
    [] c = "d" -> "D" [] c = "e" -> "E" [] c = "f" -> "F"
    [] OTHER -> c

\* every character of tag written as two upper-case hexadecimal digits
Encode(tag) ==
  [i \in 1..(2 * Len(tag)) |->
     IF i % 2 = 1 THEN UpperDigit[(tag[(i + 1) \div 2] \div 16) + 1]
     ELSE UpperDigit[(tag[i \div 2] % 16) + 1]]

\* C13: an even-length string of hexadecimal digits decodes, without error,
\* to half as many characters, the k-th one having the value of the k-th pair
\* of digits; writing the result back as two digits per character gives the
\* string again, letter case aside.
C13_DecodeRoundTrip ==
  \A t \in Threads :
    th[t].pc # "L67" /\ IsEvenHex(th[t].epc) =>
      /\ ~th[t].raised
      /\ th[t].pc = "L72"
      /\ Len(th[t].tag) = Len(th[t].epc) \div 2
      /\ \A k \in 1..Len(th[t].tag) :
           th[t].tag[k] = 16 * HexVal[th[t].epc[2 * k - 1]]
                          + HexVal[th[t].epc[2 * k]]
      /\ Encode(th[t].tag) = [i \in 1..Len(th[t].epc) |-> Upper(th[t].epc[i])]

\* 'aFC9' decoded to the characters 0xAF, 0xC9
C13_Witness ==
  \E t \in Threads :
    /\ th[t].pc = "L72"
    /\ th[t].epc = <<"a", "F", "C", "9">>
    /\ th[t].tag = <<175, 201>>

\* C17: a payload of odd length, or with a character that is no hexadecimal
\* digit, makes the decoding fail: the event ends there, with no tag decoded
\* and the dedup cache and the link as they were.
C17_MalformedPayloadRaises ==
  \A t \in Threads :
    th[t].pc # "L67" /\ th[t].epc # <<>> /\ ~IsEvenHex(th[t].epc) =>
      /\ th[t].raised
      /\ th[t].pc = "idle"
      /\ th[t].tag = <<>>
      /\ dedup_cache = <<>> /\ tag_buffer = <<>> /\ ~good

\* C14 as stated: every scan event processed while the link is DISCONNECTED
\* triggers a connect attempt, events the filter suppresses included.
C14_EveryEventReconnects ==
  [][PostStep /\ ~good => lastCall'.connectTried]_vars

\* C14, amended: while the link is DISCONNECTED an event triggers a connect
\* attempt exactly when it is handed to the link, which an event that passes
\* the filter is; a suppressed event triggers none and leaves the link
\* DISCONNECTED. A connect attempt that succeeds is followed by the write in
\* the same call.
C14_ForwardedEventReconnects ==
  [][PostStep /\ ~good =>
       /\ lastCall'.connectTried <=> lastCall'.sendCalled
       /\ lastCall'.passed => lastCall'.sendCalled
       /\ ~lastCall'.passed => ~lastCall'.connectTried /\ ~good'
       /\ lastCall'.connected => lastCall'.writes = 1]_vars

\* during an outage with ids pending, a duplicate came and went
C14_Witness ==
  /\ lastCall.op = "post" /\ ~lastCall.passed /\ ~lastCall.connectTried
  /\ lastCall.prev \in {"connect_failed", "write_failed"}
  /\ ~good /\ tag_buffer # <<>>

\* C15: of the events of one tag delivered on several threads inside one
\* window, at most one passes the filter and is forwarded.
C15_OnePassPerWindow ==
  \A tag \in Tags :
    Cardinality({i \in 1..Len(accepts[tag]) :
                   clock - accepts[tag][i] <= DEDUP_THRESHOLD}) <= 1

\* C19: with send() running on several threads, once all of them have
\* returned every id appended to the buffer is either still in the buffer or
\* went out in exactly one message whose write succeeded.
C19_NoIdLostOrWrittenTwice ==
  (\A t \in Threads : th[t].pc = "idle") =>
    \A tag \in Tags :
      appended[tag] = Count(tag, tag_buffer) + sent[tag]

\* C16: the close notification of the remote side leaves the link
\* DISCONNECTED, whatever it was, and the pending buffer as it is; the send()
\* that follows a notification received while CONNECTED makes a connect
\* attempt, and writes only if that attempt succeeded.
C16_RemoteCloseDisconnects ==
  [][/\ lastCall'.op = "on_close" =>
          /\ ~good'
          /\ UNCHANGED <<tag_buffer, self_ws, sent, appended>>
     /\ SendStep /\ Outcome(lastCall) = "remote_closed" =>
          /\ lastCall'.connectTried
          /\ lastCall'.writes = 1 <=> lastCall'.connected
          /\ ~lastCall'.connected =>
               ~good' /\ tag_buffer' = Append(tag_buffer, lastCall'.tag)]_vars

\* CONNECTED, closed by the remote side, reconnected and written by a send()
C16_Witness ==
  /\ lastCall.sendCalled /\ lastCall.prev = "remote_closed"
  /\ lastCall.connectTried /\ lastCall.connected /\ lastCall.wrote
  /\ good

\* C18 as stated: the link holds a connection handle exactly when its good
\* flag is true.
C18_HandleIffGood == (self_ws = "conn") <=> good

\* C18, amended: good is never true without a handle made by a successful
\* connect; a handle once stored stays stored when the link goes
\* DISCONNECTED, and a write is attempted on it only by a call that found
\* the link CONNECTED or connected it.
C18_GoodHasHandle ==
  [][/\ good' => self_ws' = "conn"
     /\ self_ws = "conn" => self_ws' = "conn"
     /\ self_ws' # self_ws => SendStep /\ lastCall'.connected
     /\ SendStep /\ lastCall'.writes = 1 => good \/ lastCall'.connected]_vars

\* DISCONNECTED by a failed write, the handle still stored
C18_Witness ==
  /\ lastCall.sendCalled /\ lastCall.writes = 1 /\ ~lastCall.wrote
  /\ ~good /\ self_ws = "conn"

\* C20: with events handled one at a time, the call of the next event that
\* passes the filter and whose write succeeds empties the buffer, and every
\* id appended so far has then been written exactly once; no other step
\* writes or removes an id, so a backlog stays as it is while no event
\* passes; at any time each appended id is either pending or written once.
C20_BacklogDrainsOnNextForward ==
  [][/\ PostStep /\ lastCall'.passed /\ lastCall'.wrote =>
          /\ tag_buffer' = <<>>
          /\ \A tag \in Tags : sent'[tag] = appended'[tag]
     /\ ~(PostStep /\ lastCall'.passed) => UNCHANGED <<tag_buffer, sent>>
     /\ \A tag \in Tags :
          appended'[tag] = Count(tag, tag_buffer') + sent'[tag]]_vars

\* a backlog, left alone by a suppressed event, went out with the next
\* forwarded one
C20_Witness ==
  /\ lastCall.op = "post" /\ lastCall.passed /\ lastCall.wrote
  /\ lastCall.prev = "suppressed"
  /\ lastCall.num_tags >= 2
  /\ tag_buffer = <<>>
  /\ \A tag \in Tags : sent[tag] = appended[tag]

=============================================================================
